---- MODULE Spec2Model ----
(***************************************************************************)
(* The in-memory aggregation store of the device fleet monitoring service  *)
(* (internal/storage/memory.go) with the two statistics it computes        *)
(* (internal/core/stats.go), called by concurrent goroutines.              *)
(*                                                                         *)
(* A caller is a goroutine that calls AddHeartbeat, AddUpload or GetStats. *)
(* Every call is cut at its synchronisation points: the registry RLock,    *)
(* the registry RUnlock, the device Lock / RLock, the statements of the    *)
(* critical section and the deferred Unlock / RUnlock that ends the call.  *)
(* float64 values are kept as exact fractions <<numerator, denominator>>.  *)
(***************************************************************************)
EXTENDS Integers, FiniteSets, Sequences, TLC

\* ------------------------------------------------------------------ bounds

\* Calls started in one run, over all callers.
MaxCalls == 3

\* The calling goroutines. They are interchangeable, so a new call goes to
\* the lowest-numbered goroutine that is free.
ProcOrder == <<"p1", "p2">>
Procs == {ProcOrder[i] : i \in DOMAIN ProcOrder}

\* The list given to NewMemoryStore (with a repeated identifier), and the
\* identifiers callers pass: the known ones and one unknown.
DeviceIDs == <<"d1", "d2", "d1">>
DeviceArgs == {"d1", "d2", "dx"}

\* sentAt arguments, as Unix seconds: minutes 1 and 3, and two times before
\* the epoch, one second and sixty-one seconds.
SentAts == {-61, -1, 60, 180}

\* uploadTime arguments, one of them negative.
UploadTimes == {-3, 2}

None == "none"
Nil == "nil"
ErrDeviceNotFound == "device not found"
ErrInvalidInput == "invalid input"

\* ----------------------------------------------------------------- helpers

Range(s) == {s[i] : i \in DOMAIN s}

Abs(x) == IF x < 0 THEN -x ELSE x

Min(S) == CHOOSE x \in S : \A y \in S : x <= y
Max(S) == CHOOSE x \in S : \A y \in S : x >= y

RECURSIVE GCD(_, _)
GCD(a, b) == IF b = 0 THEN a ELSE GCD(b, a % b)

\* A float64 quotient n / d as a fraction in lowest terms with a positive
\* denominator; a division by zero gives +Inf <<1, 0>>, -Inf <<-1, 0>> or
\* NaN <<0, 0>>.
Quot(n, d) ==
    IF d = 0 THEN <<IF n > 0 THEN 1 ELSE IF n < 0 THEN -1 ELSE 0, 0>>
    ELSE LET g == GCD(Abs(n), Abs(d))
             s == IF d < 0 THEN -1 ELSE 1
         IN  <<(s * n) \div g, (s * d) \div g>>

\* Go's integer division truncates toward zero.
GoDiv(a, b) == IF a >= 0 THEN a \div b ELSE -((-a) \div b)

\* The minute bucket by floor division.
MinuteOfFloor(sentAt) == sentAt \div 60

\* minute := sentAt.Unix() / 60
MinuteOf(sentAt) == GoDiv(sentAt, 60)

\* ------------------------------------------------------------ stats engine

\* The uptime over the inclusive range of minutes.
CalculateUptimeInclusive(minutes, firstMinute, lastMinute) ==
    IF Cardinality(minutes) = 0 THEN <<0, 1>>
    ELSE IF firstMinute = lastMinute THEN <<100, 1>>
    ELSE Quot(Cardinality(minutes) * 100, lastMinute - firstMinute + 1)

\* The uptime without the single-minute case.
CalculateUptimeNoSingle(minutes, firstMinute, lastMinute) ==
    IF Cardinality(minutes) = 0 THEN <<0, 1>>
    ELSE Quot(Cardinality(minutes) * 100, lastMinute - firstMinute)

\* The uptime with the single-minute case tested before the empty set.
CalculateUptimeSingleFirst(minutes, firstMinute, lastMinute) ==
    IF firstMinute = lastMinute THEN <<100, 1>>
    ELSE IF Cardinality(minutes) = 0 THEN <<0, 1>>
    ELSE Quot(Cardinality(minutes) * 100, lastMinute - firstMinute)

\* The uptime with the ratio taken in integer arithmetic.
CalculateUptimeIntegerRatio(minutes, firstMinute, lastMinute) ==
    IF Cardinality(minutes) = 0 THEN <<0, 1>>
    ELSE IF firstMinute = lastMinute THEN <<100, 1>>
    ELSE <<GoDiv(Cardinality(minutes), lastMinute - firstMinute) * 100, 1>>

CalculateUptime(minutes, firstMinute, lastMinute) ==
    IF Cardinality(minutes) = 0 THEN <<0, 1>>
    ELSE IF firstMinute = lastMinute THEN <<100, 1>>
    ELSE Quot(Cardinality(minutes) * 100, lastMinute - firstMinute)

\* The average in integer arithmetic.
CalculateAverageUploadTruncated(uploadSum, uploadCount) ==
    IF uploadCount = 0 THEN <<0, 1>>
    ELSE <<uploadSum \div uploadCount, 1>>

\* The average without the case of no uploads: 0 / 0.
CalculateAverageUploadUnguarded(uploadSum, uploadCount) == Quot(uploadSum, uploadCount)

CalculateAverageUpload(uploadSum, uploadCount) ==
    IF uploadCount = 0 THEN <<0, 1>>
    ELSE Quot(uploadSum, uploadCount)

\* ------------------------------------------------------------------- state

VARIABLES
    devices,    \* memoryStore.devices: identifier -> DeviceAgg fields
    devMu,      \* DeviceAgg.mu of each aggregate: [w, readers]
    regMu,      \* memoryStore.mu: [w, readers]
    pc,         \* where each caller is in its call
    call,       \* each caller's call: op, arguments and locals
    ret,        \* what the call that returned last returned
    resp,       \* the HTTP response written last, with the request it answers
    calls,      \* calls started so far
    hbDone,     \* per identifier: minutes of the AddHeartbeat calls that returned nil
    upDone      \* per identifier: [count, sum] of the AddUpload calls that returned nil

vars == <<devices, devMu, regMu, pc, call, ret, resp, calls, hbDone, upDone>>

\* &DeviceAgg{minutes: make(map[int64]struct{})}: every other field zero.
EmptyAgg ==
    [minutes |-> {}, firstMinute |-> 0, lastMinute |-> 0,
     uploadCount |-> 0, uploadSum |-> 0]

\* A store that leaves out the identifiers the list repeats.
NewMemoryStoreNoDup(deviceIDs) ==
    [id \in {deviceIDs[i] : i \in {j \in DOMAIN deviceIDs :
                \A k \in DOMAIN deviceIDs : deviceIDs[k] = deviceIDs[j] => k = j}}
        |-> EmptyAgg]

NewMemoryStore(deviceIDs) == [id \in Range(deviceIDs) |-> EmptyAgg]

\* sync.RWMutex: w is the writer that holds or has announced Lock, readers
\* the callers holding RLock, rwait the callers blocked in RLock.
FreeMu == [w |-> None, readers |-> {}, rwait |-> {}]

\* A JSON value of a request body: a number, a string, null, or no such
\* field.
Absent == [type |-> "absent", num |-> 0, str |-> ""]
Null == [type |-> "null", num |-> 0, str |-> ""]
Number(n) == [type |-> "number", num |-> n, str |-> ""]
String(s) == [type |-> "string", num |-> 0, str |-> s]

\* A request body: text that is a JSON object with the fields sent_at and
\* upload_time, or text that is not JSON (or no body at all).
NoBody == [json |-> FALSE, sent_at |-> Absent, upload_time |-> 0]
JSONBody(sentAt, uploadTime) == [json |-> TRUE, sent_at |-> sentAt, upload_time |-> uploadTime]

\* A request: its method, its URL path as the segments between the
\* slashes, and its body. <<"devices", "d1", "stats">> is /devices/d1/stats
\* and <<"api", "v1", "devices", "">> is /api/v1/devices/.
NoReq == [method |-> "", path |-> <<>>, body |-> NoBody]

\* A response: who wrote it (a handler, or the router itself), the status,
\* the msg of an ErrorResponse or the two fields of a StatsGetResponse.
NoResp ==
    [by |-> None, status |-> 0, msg |-> "", uptime |-> <<0, 1>>,
     avg_upload_time |-> "", req |-> NoReq]

NoCall ==
    [op |-> None, deviceID |-> None, sentAt |-> 0, minute |-> 0, uploadTime |-> 0,
     device |-> Nil, reg |-> 0, uptime |-> <<0, 1>>, avgUpload |-> <<0, 1>>,
     handler |-> None, req |-> NoReq]

NoRet == [err |-> None, uptime |-> <<0, 1>>, avgUpload |-> <<0, 1>>]

Init ==
    /\ devices = NewMemoryStore(DeviceIDs)
    /\ devMu = [id \in DOMAIN devices |-> FreeMu]
    /\ regMu = FreeMu
    /\ pc = [p \in Procs |-> "idle"]
    /\ call = [p \in Procs |-> NoCall]
    /\ ret = NoRet
    /\ resp = NoResp
    /\ calls = 0
    /\ hbDone = [id \in DeviceArgs |-> {}]
    /\ upDone = [id \in DeviceArgs |-> [count |-> 0, sum |-> 0]]

\* --------------------------------------------------------------- RWMutex

\* RLock that does not look for a writer.
MuRLockNoWait(mu, p) == [mu EXCEPT !.readers = @ \cup {p}]

\* RLock: granted at once unless a writer holds or has announced the lock;
\* then the caller blocks until that writer's Unlock.
MuRLock(mu, p) ==
    IF mu.w = None
    THEN [mu EXCEPT !.readers = @ \cup {p}]
    ELSE [mu EXCEPT !.rwait = @ \cup {p}]

\* A call that never runs its RUnlock.
MuRUnlockMissing(mu, p) == mu

MuRUnlock(mu, p) == [mu EXCEPT !.readers = @ \ {p}]

\* Lock without the writers' mutex.
MuCanLockAlways(mu) == TRUE

\* Lock: one writer at a time gets past the writers' mutex and announces.
MuCanLock(mu) == mu.w = None

MuLock(mu, p) == [mu EXCEPT !.w = p]

\* Lock that does not wait for the readers to leave.
MuLockedNoWait(mu, p) == mu.w = p

\* The announced writer runs once the readers that held the lock are gone.
MuLocked(mu, p) == mu.w = p /\ mu.readers = {}

\* A call that never runs its Unlock.
MuUnlockMissing(mu) == mu

\* Unlock: releases the readers blocked meanwhile, then the writers' mutex.
MuUnlock(mu) == [w |-> None, readers |-> mu.rwait, rwait |-> {}]

\* ------------------------------------------------ the handlers' functions

\* A time.Time: whether it is the zero time (January 1 of year 1, whose
\* Unix seconds do not fit the model's integers) and else its Unix seconds.
ZeroTime == [isZero |-> TRUE, unix |-> 0]
Unix(sec) == [isZero |-> FALSE, unix |-> sec]

\* time.Parse(time.RFC3339, s) on the strings the requests use.
ParseRFC3339(s) ==
    CASE s = "0001-01-01T00:00:00Z" -> [ok |-> TRUE, time |-> ZeroTime]
      [] s = "1970-01-01T00:01:00Z" -> [ok |-> TRUE, time |-> Unix(60)]
      [] s = "1970-01-01T00:03:00Z" -> [ok |-> TRUE, time |-> Unix(180)]
      [] OTHER -> [ok |-> FALSE, time |-> ZeroTime]

\* FlexTime.UnmarshalJSON: an integer is a Unix timestamp, a string must
\* parse as RFC3339. json.Unmarshal of null into unixTime is no error and
\* leaves it 0, so null is taken as the Unix timestamp 0. An absent field
\* is never unmarshalled and leaves the zero time.
UnmarshalFlexTime(v) ==
    CASE v.type = "number" -> [ok |-> TRUE, time |-> Unix(v.num)]
      [] v.type = "null" -> [ok |-> TRUE, time |-> Unix(0)]
      [] v.type = "string" -> ParseRFC3339(v.str)
      [] OTHER -> [ok |-> TRUE, time |-> ZeroTime]

\* json.NewDecoder(r.Body).Decode(&req) for both request types.
Decode(body) ==
    IF ~body.json THEN [ok |-> FALSE, SentAt |-> ZeroTime, UploadTime |-> 0]
    ELSE LET t == UnmarshalFlexTime(body.sent_at)
         IN  [ok |-> t.ok, SentAt |-> t.time, UploadTime |-> body.upload_time]

\* strings.HasPrefix and strings.HasSuffix on paths cut into segments: the
\* prefix "/devices/" is the segment "devices" with something after it,
\* the suffix "/heartbeat" the last segment with something before it.
HasPrefix(path, prefix) ==
    Len(path) > Len(prefix) /\ SubSeq(path, 1, Len(prefix)) = prefix

HasSuffix(path, suffix) == Len(path) >= 2 /\ path[Len(path)] = suffix

RECURSIVE Join(_)
Join(segs) ==
    IF Len(segs) = 0 THEN ""
    ELSE IF Len(segs) = 1 THEN segs[1]
    ELSE segs[1] \o "/" \o Join(Tail(segs))

\* extractDeviceID(path, prefix, suffix): "" unless the path starts with the
\* prefix, else what follows it, without the suffix when it ends with it.
extractDeviceID(path, prefix, suffix) ==
    IF ~HasPrefix(path, prefix) THEN ""
    ELSE LET rest == SubSeq(path, Len(prefix) + 1, Len(path))
         IN  IF HasSuffix(rest, suffix)
             THEN Join(SubSeq(rest, 1, Len(rest) - 1))
             ELSE Join(rest)

\* The digits after the decimal point of r / d, r < d: at most k of them.
RECURSIVE FracDigits(_, _, _)
FracDigits(r, d, k) ==
    IF r = 0 \/ k = 0 THEN ""
    ELSE ToString((r * 10) \div d) \o FracDigits((r * 10) % d, d, k - 1)

\* strconv.FormatFloat(f, 'f', -1, 64): the decimal digits and nothing else
\* (exact for the values with a finite expansion, sixteen digits otherwise).
formatFloat(f) ==
    IF f[2] = 0 THEN (IF f[1] > 0 THEN "+Inf" ELSE IF f[1] < 0 THEN "-Inf" ELSE "NaN")
    ELSE (IF f[1] < 0 THEN "-" ELSE "")
            \o ToString(Abs(f[1]) \div f[2])
            \o (IF Abs(f[1]) % f[2] = 0 THEN ""
                ELSE "." \o FracDigits(Abs(f[1]) % f[2], f[2], 16))

\* writeError(w, status, message)
writeError(handler, req, status, message) ==
    [NoResp EXCEPT !.by = handler, !.status = status, !.msg = message, !.req = req]

\* A mapping that answers every store error with 404.
RespondAllNotFound(handler, req, err, uptime, avgUpload) ==
    IF err # Nil THEN writeError(handler, req, 404, "device not found")
    ELSE IF handler = "HandleStatsGet"
    THEN [NoResp EXCEPT !.by = handler, !.status = 200, !.uptime = uptime,
                        !.avg_upload_time = formatFloat(avgUpload), !.req = req]
    ELSE [NoResp EXCEPT !.by = handler, !.status = 204, !.req = req]

\* A response whose avg_upload_time is formatted from the uptime.
RespondUptimeAsAverage(handler, req, err, uptime, avgUpload) ==
    IF err = ErrDeviceNotFound THEN writeError(handler, req, 404, "device not found")
    ELSE IF err # Nil THEN writeError(handler, req, 500, "internal server error")
    ELSE IF handler = "HandleStatsGet"
    THEN [NoResp EXCEPT !.by = handler, !.status = 200, !.uptime = uptime,
                        !.avg_upload_time = formatFloat(uptime), !.req = req]
    ELSE [NoResp EXCEPT !.by = handler, !.status = 204, !.req = req]

\* What each handler does with what the store returned: 404 for
\* ErrDeviceNotFound, 500 for any other error, else 204, or 200 with the
\* StatsGetResponse.
Respond(handler, req, err, uptime, avgUpload) ==
    IF err = ErrDeviceNotFound THEN writeError(handler, req, 404, "device not found")
    ELSE IF err # Nil THEN writeError(handler, req, 500, "internal server error")
    ELSE IF handler = "HandleStatsGet"
    THEN [NoResp EXCEPT !.by = handler, !.status = 200, !.uptime = uptime,
                        !.avg_upload_time = formatFloat(avgUpload), !.req = req]
    ELSE [NoResp EXCEPT !.by = handler, !.status = 204, !.req = req]

\* The response of the handler that made the call, none for a direct call.
Responded(p, err, uptime, avgUpload) ==
    IF call[p].handler = None THEN resp
    ELSE Respond(call[p].handler, call[p].req, err, uptime, avgUpload)

\* ------------------------------------------------- the callers' operations

\* The caller is free, and so is no caller before it.
Free(p) ==
    /\ pc[p] = "idle"
    /\ \A i, j \in DOMAIN ProcOrder :
            i < j /\ ProcOrder[j] = p => pc[ProcOrder[i]] # "idle"

\* Caller p enters a store operation, on behalf of a handler or of nobody.
Entered(p, op, id, sentAt, minute, uploadTime, handler, req) ==
    /\ Free(p)
    /\ call' = [call EXCEPT ![p] = [NoCall EXCEPT !.op = op, !.deviceID = id,
                                       !.sentAt = sentAt, !.minute = minute,
                                       !.uploadTime = uploadTime,
                                       !.handler = handler, !.req = req]]
    /\ pc' = [pc EXCEPT ![p] = "reg_rlock"]
    /\ UNCHANGED <<devices, devMu, regMu, ret, resp, hbDone, upDone>>

Started(p, op, id, sentAt, minute, uploadTime) ==
    /\ calls < MaxCalls
    /\ calls' = calls + 1
    /\ Entered(p, op, id, sentAt, minute, uploadTime, None, NoReq)

\* AddHeartbeat(ctx, deviceID, sentAt): minute := sentAt.Unix() / 60
CallAddHeartbeat(p) ==
    \E id \in DeviceArgs, sentAt \in SentAts :
        Started(p, "AddHeartbeat", id, sentAt, MinuteOf(sentAt), 0)

\* AddUpload(ctx, deviceID, sentAt, uploadTime): sentAt is never read, and
\* not kept.
CallAddUpload(p) ==
    \E id \in DeviceArgs, sentAt \in SentAts, uploadTime \in UploadTimes :
        Started(p, "AddUpload", id, 0, 0, uploadTime)

CallGetStats(p) ==
    \E id \in DeviceArgs : Started(p, "GetStats", id, 0, 0, 0)

\* A lookup that falls back to some aggregate for an unknown identifier.
LookupDefault(devs, deviceID) ==
    IF deviceID \in DOMAIN devs THEN deviceID ELSE CHOOSE d \in DOMAIN devs : TRUE

\* A registry whose identifiers all name one aggregate.
LookupShared(devs, deviceID) ==
    IF deviceID \in DOMAIN devs THEN CHOOSE d \in DOMAIN devs : TRUE ELSE Nil

\* device, exists := m.devices[deviceID]: the aggregate, named by its key.
Lookup(devs, deviceID) == IF deviceID \in DOMAIN devs THEN deviceID ELSE Nil

\* A lookup that registers an identifier it does not find.
RegRLockCreate(p) ==
    /\ pc[p] = "reg_rlock"
    /\ regMu.w = None
    /\ regMu' = MuRLock(regMu, p)
    /\ devices' = [id \in DOMAIN devices \cup {call[p].deviceID} |->
                        IF id \in DOMAIN devices THEN devices[id] ELSE EmptyAgg]
    /\ devMu' = [id \in DOMAIN devices \cup {call[p].deviceID} |->
                        IF id \in DOMAIN devices THEN devMu[id] ELSE FreeMu]
    /\ call' = [call EXCEPT ![p].device = call[p].deviceID]
    /\ pc' = [pc EXCEPT ![p] = "reg_runlock"]
    /\ UNCHANGED <<ret, resp, calls, hbDone, upDone>>

\* A lookup under the registry's exclusive lock.
RegRLockExclusive(p) ==
    /\ pc[p] = "reg_rlock"
    /\ MuCanLock(regMu) /\ regMu.readers = {}
    /\ regMu' = MuLock(regMu, p)
    /\ call' = [call EXCEPT ![p].device = Lookup(devices, call[p].deviceID)]
    /\ pc' = [pc EXCEPT ![p] = "reg_runlock"]
    /\ UNCHANGED <<devices, devMu, ret, resp, calls, hbDone, upDone>>

\* m.mu.RLock(); device, exists := m.devices[deviceID]
RegRLock(p) ==
    /\ pc[p] = "reg_rlock"
    /\ regMu.w = None
    /\ regMu' = MuRLock(regMu, p)
    /\ call' = [call EXCEPT ![p].device = Lookup(devices, call[p].deviceID)]
    /\ pc' = [pc EXCEPT ![p] = "reg_runlock"]
    /\ UNCHANGED <<devices, devMu, ret, resp, calls, hbDone, upDone>>

\* A lookup followed by a validation that rejects a negative duration.
RegRUnlockValidating(p) ==
    /\ pc[p] = "reg_runlock"
    /\ regMu' = MuRUnlock(regMu, p)
    /\ IF call[p].device = Nil \/ call[p].uploadTime < 0
       THEN /\ ret' = [NoRet EXCEPT !.err = IF call[p].device = Nil
                                            THEN ErrDeviceNotFound ELSE ErrInvalidInput]
            /\ resp' = Responded(p, ret'.err, <<0, 1>>, <<0, 1>>)
            /\ call' = [call EXCEPT ![p] = NoCall]
            /\ pc' = [pc EXCEPT ![p] = "idle"]
       ELSE /\ pc' = [pc EXCEPT ![p] =
                        IF call[p].op = "GetStats" THEN "dev_rlock" ELSE "dev_lock"]
            /\ UNCHANGED <<ret, resp, call>>
    /\ UNCHANGED <<devices, devMu, calls, hbDone, upDone>>

\* A lookup that returns ErrDeviceNotFound before it runs m.mu.RUnlock().
RegRUnlockAfterReturn(p) ==
    /\ pc[p] = "reg_runlock"
    /\ IF call[p].device = Nil
       THEN /\ regMu' = regMu
            /\ ret' = [NoRet EXCEPT !.err = ErrDeviceNotFound]
            /\ resp' = Responded(p, ErrDeviceNotFound, <<0, 1>>, <<0, 1>>)
            /\ call' = [call EXCEPT ![p] = NoCall]
            /\ pc' = [pc EXCEPT ![p] = "idle"]
       ELSE /\ regMu' = MuRUnlock(regMu, p)
            /\ pc' = [pc EXCEPT ![p] =
                        IF call[p].op = "GetStats" THEN "dev_rlock" ELSE "dev_lock"]
            /\ UNCHANGED <<ret, resp, call>>
    /\ UNCHANGED <<devices, devMu, calls, hbDone, upDone>>

\* m.mu.RUnlock(); if !exists { return ErrDeviceNotFound }
RegRUnlock(p) ==
    /\ pc[p] = "reg_runlock"
    /\ regMu' = MuRUnlock(regMu, p)
    /\ IF call[p].device = Nil
       THEN /\ ret' = [NoRet EXCEPT !.err = ErrDeviceNotFound]
            /\ resp' = Responded(p, ErrDeviceNotFound, <<0, 1>>, <<0, 1>>)
            /\ call' = [call EXCEPT ![p] = NoCall]
            /\ pc' = [pc EXCEPT ![p] = "idle"]
       ELSE /\ pc' = [pc EXCEPT ![p] =
                        IF call[p].op = "GetStats" THEN "dev_rlock" ELSE "dev_lock"]
            /\ UNCHANGED <<ret, resp, call>>
    /\ UNCHANGED <<devices, devMu, calls, hbDone, upDone>>

Body(p) == IF call[p].op = "AddHeartbeat" THEN "hb_window" ELSE "up_count_load"

\* A writer that enters its critical section without device.mu.Lock().
DevLockSkipped(p) ==
    /\ pc[p] = "dev_lock"
    /\ pc' = [pc EXCEPT ![p] = Body(p)]
    /\ UNCHANGED <<devices, devMu, regMu, call, ret, resp, calls, hbDone, upDone>>

\* A writer that takes one lock for the whole store.
DevLockGlobal(p) ==
    /\ pc[p] = "dev_lock"
    /\ \A e \in DOMAIN devMu : MuCanLock(devMu[e])
    /\ LET d == call[p].device IN
        /\ devMu' = [devMu EXCEPT ![d] = MuLock(@, p)]
        /\ pc' = [pc EXCEPT ![p] =
                    IF MuLocked(devMu'[d], p) THEN Body(p) ELSE "dev_lock_wait"]
    /\ UNCHANGED <<devices, regMu, call, ret, resp, calls, hbDone, upDone>>

\* device.mu.Lock()
DevLock(p) ==
    /\ pc[p] = "dev_lock"
    /\ LET d == call[p].device IN
        /\ MuCanLock(devMu[d])
        /\ devMu' = [devMu EXCEPT ![d] = MuLock(@, p)]
        /\ pc' = [pc EXCEPT ![p] =
                    IF MuLocked(devMu'[d], p) THEN Body(p) ELSE "dev_lock_wait"]
    /\ UNCHANGED <<devices, regMu, call, ret, resp, calls, hbDone, upDone>>

\* device.mu.Lock() returns once the last earlier reader has left.
DevLockWake(p) ==
    /\ pc[p] = "dev_lock_wait"
    /\ MuLocked(devMu[call[p].device], p)
    /\ pc' = [pc EXCEPT ![p] = Body(p)]
    /\ UNCHANGED <<devices, devMu, regMu, call, ret, resp, calls, hbDone, upDone>>

\* The window without the first-heartbeat case.
HeartbeatWindowNoFirst(agg, minute) ==
    [agg EXCEPT !.firstMinute = IF minute < @ THEN minute ELSE @,
                !.lastMinute = IF minute > @ THEN minute ELSE @]

\* lastMinute as the minute of the heartbeat received last.
HeartbeatWindowLastSeen(agg, minute) ==
    IF Cardinality(agg.minutes) = 0
    THEN [agg EXCEPT !.firstMinute = minute, !.lastMinute = minute]
    ELSE [agg EXCEPT !.firstMinute = IF minute < @ THEN minute ELSE @,
                     !.lastMinute = minute]

\* The window restarted by every heartbeat.
HeartbeatWindowReset(agg, minute) ==
    [agg EXCEPT !.firstMinute = minute, !.lastMinute = minute]

\* The first heartbeat told by firstMinute and lastMinute both being 0.
HeartbeatWindowZeroUnset(agg, minute) ==
    IF agg.firstMinute = 0 /\ agg.lastMinute = 0
    THEN [agg EXCEPT !.firstMinute = minute, !.lastMinute = minute]
    ELSE [agg EXCEPT !.firstMinute = IF minute < @ THEN minute ELSE @,
                     !.lastMinute = IF minute > @ THEN minute ELSE @]

\* if len(device.minutes) == 0 { first, last = minute } else { extend }
HeartbeatWindow(agg, minute) ==
    IF Cardinality(agg.minutes) = 0
    THEN [agg EXCEPT !.firstMinute = minute, !.lastMinute = minute]
    ELSE [agg EXCEPT !.firstMinute = IF minute < @ THEN minute ELSE @,
                     !.lastMinute = IF minute > @ THEN minute ELSE @]

\* device.minutes[minute] = struct{}{}
HeartbeatInsert(agg, minute) == [agg EXCEPT !.minutes = @ \cup {minute}]

AddHeartbeatWindow(p) ==
    /\ pc[p] = "hb_window"
    /\ devices' = [devices EXCEPT ![call[p].device] = HeartbeatWindow(@, call[p].minute)]
    /\ pc' = [pc EXCEPT ![p] = "hb_insert"]
    /\ UNCHANGED <<devMu, regMu, call, ret, resp, calls, hbDone, upDone>>

AddHeartbeatInsert(p) ==
    /\ pc[p] = "hb_insert"
    /\ devices' = [devices EXCEPT ![call[p].device] = HeartbeatInsert(@, call[p].minute)]
    /\ pc' = [pc EXCEPT ![p] = "dev_unlock"]
    /\ UNCHANGED <<devMu, regMu, call, ret, resp, calls, hbDone, upDone>>

\* device.uploadCount++ : the load, then the store
AddUploadCountLoad(p) ==
    /\ pc[p] = "up_count_load"
    /\ call' = [call EXCEPT ![p].reg = devices[call[p].device].uploadCount]
    /\ pc' = [pc EXCEPT ![p] = "up_count_store"]
    /\ UNCHANGED <<devices, devMu, regMu, ret, resp, calls, hbDone, upDone>>

\* An upload that also counts as a heartbeat of the minute it was sent in.
AddUploadCountStoreAsHeartbeat(p) ==
    /\ pc[p] = "up_count_store"
    /\ devices' = [devices EXCEPT ![call[p].device] =
                        [HeartbeatInsert(HeartbeatWindow(@, MinuteOf(call[p].sentAt)), MinuteOf(call[p].sentAt))
                            EXCEPT !.uploadCount = call[p].reg + 1]]
    /\ pc' = [pc EXCEPT ![p] = "up_sum_load"]
    /\ UNCHANGED <<devMu, regMu, call, ret, resp, calls, hbDone, upDone>>

AddUploadCountStore(p) ==
    /\ pc[p] = "up_count_store"
    /\ devices' = [devices EXCEPT ![call[p].device].uploadCount = call[p].reg + 1]
    /\ pc' = [pc EXCEPT ![p] = "up_sum_load"]
    /\ UNCHANGED <<devMu, regMu, call, ret, resp, calls, hbDone, upDone>>

\* device.uploadSum += float64(uploadTime) : the load, then the store
AddUploadSumLoad(p) ==
    /\ pc[p] = "up_sum_load"
    /\ call' = [call EXCEPT ![p].reg = devices[call[p].device].uploadSum]
    /\ pc' = [pc EXCEPT ![p] = "up_sum_store"]
    /\ UNCHANGED <<devices, devMu, regMu, ret, resp, calls, hbDone, upDone>>

\* A sum that takes a negative duration as 0.
AddUploadSumStoreClamped(p) ==
    /\ pc[p] = "up_sum_store"
    /\ devices' = [devices EXCEPT ![call[p].device].uploadSum =
                        call[p].reg + Max({0, call[p].uploadTime})]
    /\ call' = [call EXCEPT ![p].reg = 0]
    /\ pc' = [pc EXCEPT ![p] = "dev_unlock"]
    /\ UNCHANGED <<devMu, regMu, ret, resp, calls, hbDone, upDone>>

AddUploadSumStore(p) ==
    /\ pc[p] = "up_sum_store"
    /\ devices' = [devices EXCEPT ![call[p].device].uploadSum =
                        call[p].reg + call[p].uploadTime]
    /\ call' = [call EXCEPT ![p].reg = 0]
    /\ pc' = [pc EXCEPT ![p] = "dev_unlock"]
    /\ UNCHANGED <<devMu, regMu, ret, resp, calls, hbDone, upDone>>

\* return nil, running the deferred device.mu.Unlock()
DevUnlock(p) ==
    /\ pc[p] = "dev_unlock"
    /\ LET d == call[p].device IN
        /\ devMu' = [devMu EXCEPT ![d] = MuUnlock(@)]
        /\ hbDone' = IF call[p].op = "AddHeartbeat"
                     THEN [hbDone EXCEPT ![call[p].deviceID] = @ \cup {call[p].minute}]
                     ELSE hbDone
        /\ upDone' = IF call[p].op = "AddUpload"
                     THEN [upDone EXCEPT ![call[p].deviceID] =
                              [count |-> @.count + 1, sum |-> @.sum + call[p].uploadTime]]
                     ELSE upDone
    /\ ret' = [NoRet EXCEPT !.err = Nil]
    /\ resp' = Responded(p, Nil, <<0, 1>>, <<0, 1>>)
    /\ call' = [call EXCEPT ![p] = NoCall]
    /\ pc' = [pc EXCEPT ![p] = "idle"]
    /\ UNCHANGED <<devices, regMu, calls>>

\* device.mu.RLock()
DevRLock(p) ==
    /\ pc[p] = "dev_rlock"
    /\ LET d == call[p].device IN
        /\ devMu' = [devMu EXCEPT ![d] = MuRLock(@, p)]
        /\ pc' = [pc EXCEPT ![p] =
                    IF p \in devMu'[d].readers THEN "gs_uptime" ELSE "dev_rlock_wait"]
    /\ UNCHANGED <<devices, regMu, call, ret, resp, calls, hbDone, upDone>>

\* device.mu.RLock() returns once the writer's Unlock has released it.
DevRLockWake(p) ==
    /\ pc[p] = "dev_rlock_wait"
    /\ p \in devMu[call[p].device].readers
    /\ pc' = [pc EXCEPT ![p] = "gs_uptime"]
    /\ UNCHANGED <<devices, devMu, regMu, call, ret, resp, calls, hbDone, upDone>>

\* uptime = core.CalculateUptime(device.minutes, device.firstMinute, device.lastMinute)
GetStatsUptime(p) ==
    /\ pc[p] = "gs_uptime"
    /\ LET agg == devices[call[p].device] IN
        call' = [call EXCEPT ![p].uptime =
                    CalculateUptime(agg.minutes, agg.firstMinute, agg.lastMinute)]
    /\ pc' = [pc EXCEPT ![p] = "gs_avg"]
    /\ UNCHANGED <<devices, devMu, regMu, ret, resp, calls, hbDone, upDone>>

\* A GetStats that starts a new average once it has read the old one.
GetStatsAvgResetting(p) ==
    /\ pc[p] = "gs_avg"
    /\ LET agg == devices[call[p].device] IN
        call' = [call EXCEPT ![p].avgUpload =
                    CalculateAverageUpload(agg.uploadSum, agg.uploadCount)]
    /\ devices' = [devices EXCEPT ![call[p].device].uploadSum = 0,
                                  ![call[p].device].uploadCount = 0]
    /\ pc' = [pc EXCEPT ![p] = "dev_runlock"]
    /\ UNCHANGED <<devMu, regMu, ret, resp, calls, hbDone, upDone>>

\* avgUpload = core.CalculateAverageUpload(device.uploadSum, device.uploadCount)
GetStatsAvg(p) ==
    /\ pc[p] = "gs_avg"
    /\ LET agg == devices[call[p].device] IN
        call' = [call EXCEPT ![p].avgUpload =
                    CalculateAverageUpload(agg.uploadSum, agg.uploadCount)]
    /\ pc' = [pc EXCEPT ![p] = "dev_runlock"]
    /\ UNCHANGED <<devices, devMu, regMu, ret, resp, calls, hbDone, upDone>>

\* return uptime, avgUpload, nil, running the deferred device.mu.RUnlock()
DevRUnlock(p) ==
    /\ pc[p] = "dev_runlock"
    /\ devMu' = [devMu EXCEPT ![call[p].device] = MuRUnlock(@, p)]
    /\ ret' = [err |-> Nil, uptime |-> call[p].uptime,
               avgUpload |-> call[p].avgUpload]
    /\ resp' = Responded(p, Nil, call[p].uptime, call[p].avgUpload)
    /\ call' = [call EXCEPT ![p] = NoCall]
    /\ pc' = [pc EXCEPT ![p] = "idle"]
    /\ UNCHANGED <<devices, regMu, calls, hbDone, upDone>>

\* One step of a call in progress.
Step(p) ==
    \/ RegRLock(p)
    \/ RegRUnlock(p)
    \/ DevLock(p)
    \/ DevLockWake(p)
    \/ AddHeartbeatWindow(p)
    \/ AddHeartbeatInsert(p)
    \/ AddUploadCountLoad(p)
    \/ AddUploadCountStore(p)
    \/ AddUploadSumLoad(p)
    \/ AddUploadSumStore(p)
    \/ DevUnlock(p)
    \/ DevRLock(p)
    \/ DevRLockWake(p)
    \/ GetStatsUptime(p)
    \/ GetStatsAvg(p)
    \/ DevRUnlock(p)

Next ==
    \E p \in Procs :
        \/ CallAddHeartbeat(p)
        \/ CallAddUpload(p)
        \/ CallGetStats(p)
        \/ Step(p)

Spec == Init /\ [][Next]_vars

\* ------------------------------------------- the stats engine on any input

\* Arguments of CalculateUptime and CalculateAverageUpload, reachable or not.
StatsMinutes == {0, 1, 2, 4, 10}
StatsFirst == {-3, 0, 2}
StatsLast == {0, 2, 4, 10}
StatsSums == {-7, 0, 250}
StatsCounts == {0, 1, 3}

StatsAggs ==
    [minutes : SUBSET StatsMinutes, firstMinute : StatsFirst, lastMinute : StatsLast,
     uploadCount : StatsCounts, uploadSum : StatsSums]

\* A GetStats that holds the read lock of a device with any field values.
InitStats ==
    /\ \E agg \in StatsAggs :
            devices = [id \in Range(DeviceIDs) |-> IF id = "d1" THEN agg ELSE EmptyAgg]
    /\ devMu = [id \in DOMAIN devices |->
                    IF id = "d1" THEN [FreeMu EXCEPT !.readers = {"p1"}] ELSE FreeMu]
    /\ regMu = FreeMu
    /\ pc = [p \in Procs |-> IF p = "p1" THEN "gs_uptime" ELSE "idle"]
    /\ call = [p \in Procs |->
                    IF p = "p1"
                    THEN [NoCall EXCEPT !.op = "GetStats", !.deviceID = "d1", !.device = "d1"]
                    ELSE NoCall]
    /\ ret = NoRet
    /\ resp = NoResp
    /\ calls = 1
    /\ hbDone = [id \in DeviceArgs |-> {}]
    /\ upDone = [id \in DeviceArgs |-> [count |-> 0, sum |-> 0]]

NextStats ==
    \E p \in Procs :
        \/ GetStatsUptime(p)
        \/ GetStatsAvg(p)
        \/ DevRUnlock(p)

SpecStats == InitStats /\ [][NextStats]_vars

\* ------------------------------------------------- the handlers, the router

\* Requests served in one run, over all callers.
MaxRequests == 2

\* sent_at values of request bodies: a Unix timestamp, two RFC3339 strings
\* (one of them the zero time), an empty string, null, and no sent_at field.
ValidSentAts == {Number(60), String("1970-01-01T00:03:00Z")}
SentAtValues ==
    ValidSentAts \cup {String("0001-01-01T00:00:00Z"), String(""), Null, Absent}

\* Requests given to the handlers as the handler tests give them, without
\* the router: paths /devices/{id}/heartbeat and /devices/{id}/stats.
PathIDs == {"d1", "dx"}

HeartbeatRequests ==
    [method : {"POST"},
     path : {<<"devices", id, "heartbeat">> : id \in PathIDs},
     body : {NoBody} \cup {JSONBody(t, 0) : t \in SentAtValues}]

StatsPostRequests ==
    [method : {"POST"},
     path : {<<"devices", id, "stats">> : id \in PathIDs},
     body : {NoBody} \cup {JSONBody(Number(60), u) : u \in {-3, 0, 6}}
                     \cup {JSONBody(t, 6) : t \in SentAtValues \ ValidSentAts}]

StatsGetRequests ==
    [method : {"GET"},
     path : {<<"devices", id, "stats">> : id \in PathIDs},
     body : {NoBody}]

\* Requests given to the router.
RouterRequests ==
    [method : {"GET", "POST", "DELETE"},
     path : {<<"api", "v1", "devices", "">>,
             <<"api", "v1", "devices", "d1">>,
             <<"api", "v1", "devices", "d1", "heartbeat">>,
             <<"api", "v1", "devices", "d1", "stats">>,
             <<"devices", "d1", "stats">>,
             <<"healthz">>},
     body : {JSONBody(Number(60), 6)}]

\* A request answered without a call of the store.
Replied(p, r) ==
    /\ Free(p)
    /\ calls < MaxRequests
    /\ calls' = calls + 1
    /\ resp' = r
    /\ UNCHANGED <<devices, devMu, regMu, pc, call, ret, hbDone, upDone>>

\* A request whose handler calls the store.
Called(p, op, id, sentAt, minute, uploadTime, handler, req) ==
    /\ calls < MaxRequests
    /\ calls' = calls + 1
    /\ Entered(p, op, id, sentAt, minute, uploadTime, handler, req)

\* A heartbeat handler without the test of the zero time.
HandleHeartbeatNoZeroTest(p, req) ==
    LET deviceID == extractDeviceID(req.path, <<"devices">>, "heartbeat")
        dec == Decode(req.body)
    IN  IF deviceID = ""
        THEN Replied(p, writeError("HandleHeartbeat", req, 400, "invalid device_id in path"))
        ELSE IF ~dec.ok
        THEN Replied(p, writeError("HandleHeartbeat", req, 400, "invalid JSON payload"))
        ELSE Called(p, "AddHeartbeat", deviceID, dec.SentAt.unix,
                    MinuteOf(dec.SentAt.unix), 0, "HandleHeartbeat", req)

HandleHeartbeat(p, req) ==
    LET deviceID == extractDeviceID(req.path, <<"devices">>, "heartbeat")
        dec == Decode(req.body)
    IN  IF deviceID = ""
        THEN Replied(p, writeError("HandleHeartbeat", req, 400, "invalid device_id in path"))
        ELSE IF ~dec.ok
        THEN Replied(p, writeError("HandleHeartbeat", req, 400, "invalid JSON payload"))
        ELSE IF dec.SentAt.isZero
        THEN Replied(p, writeError("HandleHeartbeat", req, 400, "invalid sent_at timestamp"))
        ELSE Called(p, "AddHeartbeat", deviceID, dec.SentAt.unix,
                    MinuteOf(dec.SentAt.unix), 0, "HandleHeartbeat", req)

\* A stats POST handler without the test of upload_time.
HandleStatsPostNoRange(p, req) ==
    LET deviceID == extractDeviceID(req.path, <<"devices">>, "stats")
        dec == Decode(req.body)
    IN  IF deviceID = ""
        THEN Replied(p, writeError("HandleStatsPost", req, 400, "invalid device_id in path"))
        ELSE IF ~dec.ok
        THEN Replied(p, writeError("HandleStatsPost", req, 400, "invalid JSON payload"))
        ELSE IF dec.SentAt.isZero
        THEN Replied(p, writeError("HandleStatsPost", req, 400, "invalid sent_at timestamp"))
        ELSE Called(p, "AddUpload", deviceID, 0, 0, dec.UploadTime, "HandleStatsPost", req)

\* AddUpload never reads sentAt, which is not kept.
HandleStatsPost(p, req) ==
    LET deviceID == extractDeviceID(req.path, <<"devices">>, "stats")
        dec == Decode(req.body)
    IN  IF deviceID = ""
        THEN Replied(p, writeError("HandleStatsPost", req, 400, "invalid device_id in path"))
        ELSE IF ~dec.ok
        THEN Replied(p, writeError("HandleStatsPost", req, 400, "invalid JSON payload"))
        ELSE IF dec.SentAt.isZero
        THEN Replied(p, writeError("HandleStatsPost", req, 400, "invalid sent_at timestamp"))
        ELSE IF dec.UploadTime < 0
        THEN Replied(p, writeError("HandleStatsPost", req, 400, "upload_time must be non-negative"))
        ELSE Called(p, "AddUpload", deviceID, 0, 0, dec.UploadTime, "HandleStatsPost", req)

HandleStatsGet(p, req) ==
    LET deviceID == extractDeviceID(req.path, <<"devices">>, "stats")
    IN  IF deviceID = ""
        THEN Replied(p, writeError("HandleStatsGet", req, 400, "invalid device_id in path"))
        ELSE Called(p, "GetStats", deviceID, 0, 0, 0, "HandleStatsGet", req)

\* http.NotFound, http.Error and the health check: written by the router.
RouterReply(req, status, msg) ==
    [NoResp EXCEPT !.by = "NewRouter", !.status = status, !.msg = msg, !.req = req]

\* A router that dispatches on the suffix alone: every method on
\* .../heartbeat goes to the heartbeat handler, every method but GET on
\* .../stats to the stats POST handler.
ServeHTTPAnyMethod(p, req) ==
    IF HasPrefix(req.path, <<"api", "v1", "devices">>)
    THEN IF req.path = <<"api", "v1", "devices", "">>
         THEN Replied(p, RouterReply(req, 404, "404 page not found"))
         ELSE IF HasSuffix(req.path, "heartbeat")
         THEN HandleHeartbeat(p, req)
         ELSE IF HasSuffix(req.path, "stats")
         THEN IF req.method = "GET" THEN HandleStatsGet(p, req)
              ELSE HandleStatsPost(p, req)
         ELSE Replied(p, RouterReply(req, 404, "404 page not found"))
    ELSE IF req.path = <<"healthz">>
    THEN Replied(p, RouterReply(req, 200, "ok"))
    ELSE Replied(p, RouterReply(req, 404, "404 page not found"))

\* The handler NewRouter returns: the mux with the pattern /api/v1/devices/
\* and /healthz, and under the first the dispatch on suffix and method. The
\* logging middleware passes the request on as it is.
ServeHTTP(p, req) ==
    IF HasPrefix(req.path, <<"api", "v1", "devices">>)
    THEN IF req.path = <<"api", "v1", "devices", "">>
         THEN Replied(p, RouterReply(req, 404, "404 page not found"))
         ELSE IF HasSuffix(req.path, "heartbeat")
         THEN IF req.method = "POST"
              THEN HandleHeartbeat(p, req)
              ELSE Replied(p, RouterReply(req, 405, "Method not allowed"))
         ELSE IF HasSuffix(req.path, "stats")
         THEN IF req.method = "POST" THEN HandleStatsPost(p, req)
              ELSE IF req.method = "GET" THEN HandleStatsGet(p, req)
              ELSE Replied(p, RouterReply(req, 405, "Method not allowed"))
         ELSE Replied(p, RouterReply(req, 404, "404 page not found"))
    ELSE IF req.path = <<"healthz">>
    THEN Replied(p, RouterReply(req, 200, "ok"))
    ELSE Replied(p, RouterReply(req, 404, "404 page not found"))

\* Requests arrive at the handlers directly or through the router, and the
\* store calls they make run step by step.
NextHTTP ==
    \E p \in Procs :
        \/ \E req \in HeartbeatRequests : HandleHeartbeat(p, req)
        \/ \E req \in StatsPostRequests : HandleStatsPost(p, req)
        \/ \E req \in StatsGetRequests : HandleStatsGet(p, req)
        \/ \E req \in RouterRequests : ServeHTTP(p, req)
        \/ Step(p)

SpecHTTP == Init /\ [][NextHTTP]_vars

\* The handlers on the mockStore of the handler tests, whose functions
\* return what the test chooses.
MockErrs == {Nil, ErrDeviceNotFound, ErrInvalidInput}
MockStats == {<<0, 1>>, <<75, 1>>, <<7, 2>>}

mockStore(p) ==
    /\ pc[p] = "reg_rlock"
    /\ \E err \in MockErrs, uptime \in MockStats, avgUpload \in MockStats :
        /\ ret' = IF call[p].op = "GetStats"
                  THEN [err |-> err, uptime |-> uptime, avgUpload |-> avgUpload]
                  ELSE [NoRet EXCEPT !.err = err]
        /\ resp' = Responded(p, ret'.err, ret'.uptime, ret'.avgUpload)
    /\ call' = [call EXCEPT ![p] = NoCall]
    /\ pc' = [pc EXCEPT ![p] = "idle"]
    /\ UNCHANGED <<devices, devMu, regMu, calls, hbDone, upDone>>

NextMock ==
    \E p \in Procs :
        \/ \E req \in HeartbeatRequests : HandleHeartbeat(p, req)
        \/ \E req \in StatsPostRequests : HandleStatsPost(p, req)
        \/ \E req \in StatsGetRequests : HandleStatsGet(p, req)
        \/ mockStore(p)

SpecMock == Init /\ [][NextMock]_vars

\* ----------------------------------------------- callers that never stop

\* Calls without end: heartbeats and GetStats as often as the callers like,
\* on one known and one unknown identifier, and uploads of a device as long
\* as fewer than MaxCalls of them have returned or are in progress.
LiveIDs == {"d1", "dx"}
LiveSentAts == {60, 180}
LiveUploadTimes == {2}

UploadsInProgress(id) ==
    Cardinality({p \in Procs : pc[p] # "idle" /\ call[p].op = "AddUpload"
                                  /\ call[p].deviceID = id})

AgainAddHeartbeat(p) ==
    /\ \E id \in LiveIDs, sentAt \in LiveSentAts :
            Entered(p, "AddHeartbeat", id, sentAt, MinuteOf(sentAt), 0, None, NoReq)
    /\ UNCHANGED calls

AgainAddUpload(p) ==
    /\ \E id \in LiveIDs, uploadTime \in LiveUploadTimes :
            /\ upDone[id].count + UploadsInProgress(id) < MaxCalls
            /\ Entered(p, "AddUpload", id, 0, 0, uploadTime, None, NoReq)
    /\ UNCHANGED calls

AgainGetStats(p) ==
    /\ \E id \in LiveIDs : Entered(p, "GetStats", id, 0, 0, 0, None, NoReq)
    /\ UNCHANGED calls

NextLive ==
    \E p \in Procs :
        \/ AgainAddHeartbeat(p)
        \/ AgainAddUpload(p)
        \/ AgainGetStats(p)
        \/ Step(p)

\* The Go scheduler runs every goroutine that can run, and sync.Mutex, on
\* which RWMutex.Lock queues the writers, hands the lock to a writer that
\* has waited long (starvation mode) before one that arrives later.
Fairness ==
    \A p \in Procs : WF_vars(Step(p)) /\ SF_vars(DevLock(p))

SpecLive == Init /\ [][NextLive]_vars /\ Fairness

\* ------------------------------------------- uploads that keep their sentAt

\* The calls on one device, with the sentAt argument of AddUpload kept in
\* the call although AddUpload never reads it: heartbeats of minutes 1 and
\* 3, uploads sent in minutes -1 and 3.
AtIDs == {"d1"}
AtHeartbeatSentAts == {60, 180}
AtUploadSentAts == {-61, 180}
AtUploadTimes == {2}

AddHeartbeatAt(p) ==
    \E id \in AtIDs, sentAt \in AtHeartbeatSentAts :
        Started(p, "AddHeartbeat", id, sentAt, MinuteOf(sentAt), 0)

AddUploadAt(p) ==
    \E id \in AtIDs, sentAt \in AtUploadSentAts, uploadTime \in AtUploadTimes :
        Started(p, "AddUpload", id, sentAt, 0, uploadTime)

GetStatsAt(p) ==
    \E id \in AtIDs : Started(p, "GetStats", id, 0, 0, 0)

NextAt ==
    \E p \in Procs :
        \/ AddHeartbeatAt(p)
        \/ AddUploadAt(p)
        \/ GetStatsAt(p)
        \/ Step(p)

SpecAt == Init /\ [][NextAt]_vars

\* ------------------------------------------------------------------ claims

Known == DOMAIN devices

Minutes == {MinuteOf(t) : t \in SentAts}

\* A call of op with identifier id has started and not returned.
InFlight(op, id) ==
    \E p \in Procs : pc[p] # "idle" /\ call[p].op = op /\ call[p].deviceID = id

\* The callers inside the critical section of aggregate d.
WriteSection == {"hb_window", "hb_insert", "up_count_load", "up_count_store",
                 "up_sum_load", "up_sum_store", "dev_unlock"}
ReadSection == {"gs_uptime", "gs_avg", "dev_runlock"}
Writers(d) == {p \in Procs : pc[p] \in WriteSection /\ call[p].device = d}
Readers(d) == {p \in Procs : pc[p] \in ReadSection /\ call[p].device = d}

\* The whole of AddHeartbeat's critical section.
ApplyHeartbeat(agg, minute) == HeartbeatInsert(HeartbeatWindow(agg, minute), minute)

\* The uptime of a device whose heartbeats were exactly those of set S.
UptimeOf(S) == IF S = {} THEN <<0, 1>> ELSE CalculateUptime(S, Min(S), Max(S))

\* C1: once every AddHeartbeat call on a known device has returned, a
\* GetStats on it computes its uptime from a minutes set that holds exactly
\* the minutes of those calls (as many elements as there were distinct
\* minutes), with firstMinute their minimum and lastMinute their maximum.
C1_NoHeartbeatLost ==
    \A d \in Known : \A p \in Procs :
        (pc[p] \in {"gs_avg", "dev_runlock"} /\ call[p].device = d
            /\ ~InFlight("AddHeartbeat", d)) =>
            /\ Cardinality(devices[d].minutes) = Cardinality(hbDone[d])
            /\ call[p].uptime = UptimeOf(hbDone[d])
            /\ hbDone[d] # {} => /\ devices[d].firstMinute = Min(hbDone[d])
                                 /\ devices[d].lastMinute = Max(hbDone[d])

\* Two heartbeats with different minutes have returned and a GetStats has
\* computed the uptime of their device.
C1_Witness ==
    \E p \in Procs :
        /\ pc[p] = "dev_runlock"
        /\ Cardinality(hbDone[call[p].device]) = 2
        /\ ~InFlight("AddHeartbeat", call[p].device)

\* C2: once every AddUpload call on a device has returned, the device's
\* uploadCount is the number of AddUpload calls that returned nil for it and
\* its uploadSum the sum of their durations.
C2_NoUploadLost ==
    \A d \in Known :
        ~InFlight("AddUpload", d) =>
            /\ devices[d].uploadCount = upDone[d].count
            /\ devices[d].uploadSum = upDone[d].sum

\* Three uploads of one device have returned.
C2_Witness ==
    \E d \in Known :
        /\ ~InFlight("AddUpload", d)
        /\ upDone[d].count = 3
        /\ devices[d].uploadSum = 1

\* C3: in every state of a device that a caller outside the writer's
\* critical section can observe (no writer is inside; in particular whenever
\* a GetStats holds the read lock), a non-empty minutes set comes with
\* firstMinute <= lastMinute, both of them members of minutes.
WindowInv(agg) ==
    agg.minutes # {} =>
        /\ agg.firstMinute <= agg.lastMinute
        /\ agg.firstMinute \in agg.minutes
        /\ agg.lastMinute \in agg.minutes

C4_OrderIndependent ==
    [](\A d \in Known :
        ~InFlight("AddHeartbeat", d) =>
            /\ \A m1, m2 \in Minutes :
                m1 < m2 =>
                    ApplyHeartbeat(ApplyHeartbeat(devices[d], m1), m2)
                        = ApplyHeartbeat(ApplyHeartbeat(devices[d], m2), m1)
            /\ devices[d].minutes = hbDone[d]
            /\ hbDone[d] # {} => /\ devices[d].firstMinute = Min(hbDone[d])
                                 /\ devices[d].lastMinute = Max(hbDone[d])
            /\ hbDone[d] = {1, 3} => /\ devices[d].firstMinute = 1
                                     /\ devices[d].lastMinute = 3
                                     /\ Cardinality(devices[d].minutes) = 2)

\* The heartbeats of minutes 1 and 3 have both returned.
C4_Witness ==
    \E d \in Known : ~InFlight("AddHeartbeat", d) /\ hbDone[d] = {1, 3}

\* C5: an AddHeartbeat whose minute is already in the device's minutes set
\* leaves minutes, firstMinute and lastMinute as they were.
C5_IdempotentPerMinute ==
    [][\A p \in Procs :
        (pc[p] \in {"hb_window", "hb_insert"}
            /\ call[p].minute \in devices[call[p].device].minutes) =>
            LET d == call[p].device IN
                /\ devices'[d].minutes = devices[d].minutes
                /\ devices'[d].firstMinute = devices[d].firstMinute
                /\ devices'[d].lastMinute = devices[d].lastMinute]_vars

\* A second heartbeat of minute 1 has gone through its critical section on
\* a device that holds minutes 1 and 3.
C5_Witness ==
    \E p \in Procs :
        /\ pc[p] = "dev_unlock"
        /\ call[p].op = "AddHeartbeat"
        /\ call[p].minute = 1
        /\ hbDone[call[p].device] = {1, 3}
        /\ devices[call[p].device].minutes = {1, 3}

\* C6: a call with an identifier that was not given to NewMemoryStore never
\* gets past the registry lookup, changes no device and no lock of a device,
\* leaves the registry's identifiers as they were, and returns
\* ErrDeviceNotFound.
C6_UnknownDevice ==
    [][\A p \in Procs :
        (pc[p] # "idle" /\ call[p].deviceID \notin Range(DeviceIDs)
            /\ pc'[p] # pc[p]) =>
            /\ devices' = devices
            /\ devMu' = devMu
            /\ pc'[p] \in {"reg_runlock", "idle"}
            /\ pc'[p] = "idle" => ret'.err = ErrDeviceNotFound]_vars

\* A call with the unknown identifier has returned ErrDeviceNotFound after
\* a heartbeat was recorded.
C6_Witness ==
    /\ ret.err = ErrDeviceNotFound
    /\ \E d \in Known : devices[d].minutes # {}
    /\ \A p \in Procs : pc[p] = "idle"

\* C7: whenever some call has not returned, some call can take a step.
C7_NoDeadlock ==
    (\E p \in Procs : pc[p] # "idle") => \E p \in Procs : ENABLED Step(p)

\* A writer has announced Lock and waits for a reader of the same device.
C7_Witness ==
    \E p, q \in Procs :
        /\ pc[p] = "dev_lock_wait"
        /\ pc[q] \in ReadSection
        /\ call[p].device = call[q].device

\* C8: no caller holds the registry lock while it holds or waits for a device
\* lock, and no caller holds or waits for more than one device lock.
HoldsOrWaits(p, d) ==
    \/ devMu[d].w = p
    \/ p \in devMu[d].readers
    \/ p \in devMu[d].rwait
    \/ pc[p] \in {"dev_lock", "dev_rlock"} /\ call[p].device = d

C8_LockOrder ==
    \A p \in Procs :
        /\ p \in regMu.readers => \A d \in Known : ~HoldsOrWaits(p, d)
        /\ Cardinality({d \in Known : HoldsOrWaits(p, d)}) <= 1

\* One caller holds the registry lock while the other holds a device lock,
\* after a call on the other device has returned.
C8_Witness ==
    \E p, q \in Procs :
        /\ p \in regMu.readers
        /\ \E d \in Known : devMu[d].w = q /\ \E e \in Known \ {d} : upDone[e].count > 0

\* C9: a writer is inside a device's critical section only as the holder of
\* its lock, alone; GetStats is inside only as a holder of the read lock, and
\* several GetStats may be inside together.
C9_WritersExclusive ==
    \A d \in Known :
        /\ Cardinality(Writers(d)) <= 1
        /\ Writers(d) # {} => Readers(d) = {}
        /\ \A p \in Writers(d) : devMu[d].w = p /\ devMu[d].readers = {}
        /\ \A p \in Readers(d) : p \in devMu[d].readers

\* Two GetStats are inside the critical section of a device that was written.
C9_Witness ==
    \E d \in Known :
        /\ Cardinality(Readers(d)) = 2
        /\ devices[d].uploadCount > 0

\* C10: the uptime and the average a GetStats is about to return are those
\* of the state the device has at that instant, before the read lock is
\* released: both come from one state of the device.
C10_Snapshot ==
    \A p \in Procs :
        pc[p] = "dev_runlock" =>
            LET agg == devices[call[p].device] IN
                /\ call[p].uptime =
                       CalculateUptime(agg.minutes, agg.firstMinute, agg.lastMinute)
                /\ call[p].avgUpload =
                       CalculateAverageUpload(agg.uploadSum, agg.uploadCount)

\* A GetStats has computed both values of a device with a heartbeat while a
\* writer of the device waits for it to leave.
C10_Witness ==
    \E p, q \in Procs :
        /\ pc[p] = "dev_runlock"
        /\ pc[q] = "dev_lock_wait"
        /\ call[q].device = call[p].device
        /\ call[p].uptime = <<100, 1>>

\* C11: a step of an AddHeartbeat or AddUpload called for one identifier
\* leaves the five fields of every device with another identifier unchanged.
C11_OtherDevicesUntouched ==
    [][\A p \in Procs :
        (pc[p] # "idle" /\ pc'[p] # pc[p]
            /\ call[p].op \in {"AddHeartbeat", "AddUpload"}) =>
            \A b \in Known \ {call[p].deviceID} : devices'[b] = devices[b]]_vars

\* A writer of one device is about to leave its critical section while a
\* call on another device, which holds a heartbeat, is inside its own.
C11_Witness ==
    \E p, q \in Procs :
        /\ pc[p] = "dev_unlock"
        /\ pc[q] \in WriteSection \cup ReadSection
        /\ call[q].device # call[p].device
        /\ devices[call[q].device].minutes # {}

\* C12: a call whose identifier no other call in progress uses can always
\* take its next step, whatever locks of other devices are held: it gets its
\* device's lock and runs to its return without another device's lock being
\* released.
C12_OtherDevicesNotBlocked ==
    \A p \in Procs :
        (pc[p] # "idle"
            /\ \A q \in Procs \ {p} :
                pc[q] = "idle" \/ call[q].deviceID # call[p].deviceID)
            => ENABLED Step(p)

\* A caller is about to lock one device while the other caller holds the
\* write lock of another device.
C12_Witness ==
    \E p, q \in Procs :
        /\ pc[p] \in {"dev_lock", "dev_rlock"}
        /\ pc[q] \in WriteSection
        /\ call[p].device # call[q].device
        /\ devMu[call[q].device].w = q

\* C13: the uptime a GetStats returns is within 0 to 100.
C13_UptimeWithin100 ==
    \A p \in Procs :
        pc[p] = "dev_runlock" =>
            /\ call[p].uptime[1] >= 0
            /\ call[p].uptime[1] <= 100 * call[p].uptime[2]

C15_SingleMinute ==
    \A p \in Procs :
        (pc[p] \in {"gs_avg", "dev_runlock"}
            /\ Cardinality(devices[call[p].device].minutes) = 1) =>
            call[p].uptime = <<100, 1>>

\* Two heartbeats of minute 1 have returned, and a GetStats has computed the
\* uptime of their device.
C15_Witness ==
    \E p \in Procs :
        /\ pc[p] = "dev_runlock"
        /\ calls = 3
        /\ hbDone[call[p].device] = {1}
        /\ \A d \in Known \ {call[p].device} : hbDone[d] = {}
        /\ \A d \in Known : upDone[d].count = 0
        /\ ret.err = Nil
        /\ \A q \in Procs \ {p} : pc[q] = "idle"

\* C16: CalculateUptime gives 0 for an empty minutes set whatever firstMinute
\* and lastMinute are, and no input makes it divide by zero.
C16_EmptyIsZero ==
    \A p \in Procs :
        pc[p] \in {"gs_avg", "dev_runlock"} =>
            /\ call[p].uptime[2] # 0
            /\ devices[call[p].device].minutes = {} => call[p].uptime = <<0, 1>>

\* The uptime of an empty set with firstMinute -3 and lastMinute 10 has been
\* computed.
C16_Witness ==
    \E p \in Procs :
        /\ pc[p] = "gs_avg"
        /\ devices[call[p].device].minutes = {}
        /\ devices[call[p].device].firstMinute = -3
        /\ devices[call[p].device].lastMinute = 10
        /\ call[p].uptime = <<0, 1>>

\* C17: the average a GetStats returns is 0 when no upload was recorded for
\* the device, and otherwise the sum of the recorded durations divided by
\* their number.
C17_AverageIsMean ==
    \A p \in Procs :
        (pc[p] = "dev_runlock" /\ ~InFlight("AddUpload", call[p].deviceID)) =>
            LET done == upDone[call[p].deviceID]
                avg == call[p].avgUpload
            IN  IF done.count = 0
                THEN avg = <<0, 1>>
                ELSE avg[2] > 0 /\ avg[1] * done.count = done.sum * avg[2]

\* Uploads of 2 and -3 have returned and a GetStats has computed -1/2.
C17_Witness ==
    \E p \in Procs :
        /\ pc[p] = "dev_runlock"
        /\ upDone[call[p].deviceID] = [count |-> 2, sum |-> -1]
        /\ call[p].avgUpload = <<-1, 2>>

\* C18: the minute an AddHeartbeat records is the floor of its timestamp's
\* epoch seconds divided by 60, also before the epoch: second -1 falls into
\* minute -1.
C18_FloorBucket ==
    \A p \in Procs :
        call[p].op = "AddHeartbeat" => call[p].minute = call[p].sentAt \div 60

\* C19: the registry holds exactly the identifiers given to NewMemoryStore,
\* and no step adds or removes an identifier or makes an identifier name
\* another aggregate.
C19_RegistryFixed ==
    /\ DOMAIN devices = Range(DeviceIDs)
    /\ [][/\ DOMAIN devices' = DOMAIN devices
          /\ DOMAIN devMu' = DOMAIN devMu
          /\ \A id \in DeviceArgs : Lookup(devices', id) = Lookup(devices, id)]_vars

\* All three calls have returned, the last one ErrDeviceNotFound, after an
\* upload was recorded.
C19_Witness ==
    /\ calls = 3
    /\ \A p \in Procs : pc[p] = "idle"
    /\ ret.err = ErrDeviceNotFound
    /\ \E d \in Known : devices[d].uploadCount > 0

\* C20: an identifier the list repeats has one aggregate: a GetStats under
\* it sees the heartbeats and the uploads recorded under it.
Repeated == {id \in Range(DeviceIDs) :
                \E i, j \in DOMAIN DeviceIDs :
                    i # j /\ DeviceIDs[i] = id /\ DeviceIDs[j] = id}

C20_DuplicatesCollapse ==
    /\ \A id \in Repeated : id \in DOMAIN devices
    /\ Cardinality(DOMAIN devices) = Cardinality(Range(DeviceIDs))
    /\ \A p \in Procs :
        (pc[p] = "dev_runlock" /\ call[p].deviceID \in Repeated
            /\ ~InFlight("AddHeartbeat", call[p].deviceID)
            /\ ~InFlight("AddUpload", call[p].deviceID)) =>
            /\ call[p].uptime = UptimeOf(hbDone[call[p].deviceID])
            /\ call[p].avgUpload =
                   CalculateAverageUpload(upDone[call[p].deviceID].sum,
                                          upDone[call[p].deviceID].count)

\* A GetStats under the repeated identifier has computed the statistics of
\* a heartbeat and an upload recorded under it.
C20_Witness ==
    \E p \in Procs :
        /\ pc[p] = "dev_runlock"
        /\ call[p].deviceID \in Repeated
        /\ hbDone[call[p].deviceID] # {}
        /\ upDone[call[p].deviceID].count = 1
        /\ call[p].uptime = <<100, 1>>
        /\ call[p].avgUpload # <<0, 1>>

\* C21: every call on a known device returns nil, whatever the device's
\* state, the timestamp or the duration, and every call on an unknown one
\* ErrDeviceNotFound: no call returns ErrInvalidInput or any other error.
C21_OnlyNotFound ==
    /\ [](ret.err \in {None, Nil, ErrDeviceNotFound})
    /\ [][\A p \in Procs :
            (pc[p] # "idle" /\ pc'[p] = "idle") =>
                ret'.err = IF call[p].deviceID \in Range(DeviceIDs)
                           THEN Nil ELSE ErrDeviceNotFound]_vars

\* A GetStats has returned nil last, for a device with a heartbeat, after
\* an upload of negative duration was recorded.
C21_Witness ==
    /\ \A p \in Procs : pc[p] = "idle"
    /\ ret.err = Nil
    /\ ret.uptime = <<100, 1>>
    /\ \E d \in Known : upDone[d].sum < 0

\* C22: an AddUpload called with a negative duration on a known device
\* finds uploadCount and uploadSum as the returned uploads left them, leaves
\* uploadCount one higher and uploadSum higher by the negative duration, and
\* returns nil.
C22_NegativeAccepted ==
    /\ [](\A p \in Procs :
        (call[p].op = "AddUpload" /\ call[p].uploadTime < 0) =>
            LET d == call[p].device IN
                /\ pc[p] = "up_count_load" =>
                        /\ devices[d].uploadCount = upDone[d].count
                        /\ devices[d].uploadSum = upDone[d].sum
                /\ pc[p] = "dev_unlock" =>
                        /\ devices[d].uploadCount = upDone[d].count + 1
                        /\ devices[d].uploadSum = upDone[d].sum + call[p].uploadTime)
    /\ [][\A p \in Procs :
            (pc[p] = "dev_unlock" /\ pc'[p] = "idle") => ret'.err = Nil]_vars

\* An upload of -3 has returned nil and left the count 1 and the sum -3.
C22_Witness ==
    /\ \A p \in Procs : pc[p] = "idle"
    /\ ret.err = Nil
    /\ \E d \in Known :
            /\ upDone[d] = [count |-> 1, sum |-> -3]
            /\ devices[d].uploadCount = 1
            /\ devices[d].uploadSum = -3

\* The request a response answers is a stats POST to /devices/{id}/stats
\* whose body is JSON.
StatsPostOf(r, id) ==
    /\ r.by = "HandleStatsPost"
    /\ r.req.path = <<"devices", id, "stats">>
    /\ r.req.body.json

\* The step writes a response: at once, or when a handler's store call
\* returns.
Answered ==
    \/ calls' # calls /\ pc' = pc
    \/ \E p \in Procs : pc[p] # "idle" /\ pc'[p] = "idle" /\ call[p].handler # None

\* C23: HandleStatsPost answers a request whose upload_time is negative
\* with 400 in one step that starts no store call and changes no device; no
\* call made by a handler carries a negative duration, and with all uploads
\* coming through the handler no uploadSum is ever negative.
C23_NegativeRejected ==
    /\ [](/\ \A p \in Procs : call[p].handler # None => call[p].uploadTime >= 0
          /\ \A d \in Known : devices[d].uploadSum >= 0)
    /\ [][(Answered /\ resp'.by = "HandleStatsPost" /\ resp'.req.body.json
                /\ resp'.req.body.upload_time < 0) =>
            /\ resp'.status = 400
            /\ devices' = devices
            /\ pc' = pc
            /\ call' = call]_vars
    /\ [][\A p \in Procs :
            (pc[p] # "idle" /\ pc'[p] = "idle" /\ call[p].handler = "HandleStatsPost") =>
                call[p].req.body.upload_time >= 0]_vars

\* A stats POST with upload_time -3 and a valid sent_at for a known device
\* has been answered 400, after an upload of that device was accepted.
C23_Witness ==
    /\ StatsPostOf(resp, "d1")
    /\ resp.req.body.sent_at \in ValidSentAts
    /\ resp.req.body.upload_time = -3
    /\ resp.status = 400
    /\ resp.msg = "upload_time must be non-negative"
    /\ devices["d1"].uploadCount = 1
    /\ \A p \in Procs : pc[p] = "idle"

\* C24: when the store returns to a handler, ErrDeviceNotFound is answered
\* 404, any other error 500, and nil 204 by the two POST handlers and 200 by
\* the GET handler, with the uptime the store returned.
C24_StatusOfOutcome ==
    [][\A p \in Procs :
        (pc[p] = "reg_rlock" /\ pc'[p] = "idle") =>
            /\ resp'.by = call[p].handler
            /\ resp'.req = call[p].req
            /\ ret'.err = ErrDeviceNotFound => resp'.status = 404
            /\ ret'.err \notin {Nil, ErrDeviceNotFound} => resp'.status = 500
            /\ (ret'.err = Nil /\ call[p].handler # "HandleStatsGet") =>
                    resp'.status = 204
            /\ (ret'.err = Nil /\ call[p].handler = "HandleStatsGet") =>
                    resp'.status = 200 /\ resp'.uptime = ret'.uptime]_vars

\* The store has returned ErrInvalidInput to the GET handler, which has
\* answered 500.
C24_Witness ==
    /\ ret.err = ErrInvalidInput
    /\ resp.by = "HandleStatsGet"
    /\ resp.status = 500
    /\ resp.msg = "internal server error"

\* The body of a request decodes, with a sent_at that is not the zero time.
ValidBody(body) == Decode(body).ok /\ ~Decode(body).SentAt.isZero

\* C25: a request with a valid body for a known device that the router
\* is given under /api/v1/devices/{device_id}/ is answered 204 for POST
\* .../heartbeat and POST .../stats, and 200 for GET .../stats.
C25_RouterReachesStore ==
    \A id \in Known :
        (resp.req.path \in {<<"api", "v1", "devices", id, "heartbeat">>,
                            <<"api", "v1", "devices", id, "stats">>}
            /\ ValidBody(resp.req.body) /\ resp.req.body.upload_time >= 0) =>
            /\ resp.req.method = "POST" => resp.status = 204
            /\ (resp.req.method = "GET" /\ resp.req.path[5] = "stats") =>
                    resp.status = 200

\* C26: a stats POST for a known device whose sent_at is the zero time and
\* whose upload_time is not negative is answered 204.
C26_ZeroTimeAccepted ==
    \A id \in Known :
        (StatsPostOf(resp, id)
            /\ resp.req.body.sent_at = String("0001-01-01T00:00:00Z")
            /\ resp.req.body.upload_time >= 0) =>
            resp.status = 204

\* C27: the GET handler reports the avg_upload_time "0s" for a known device
\* that has no upload.
C27_ZeroSeconds ==
    \A id \in Known :
        (resp.by = "HandleStatsGet" /\ resp.status = 200
            /\ resp.req.path = <<"devices", id, "stats">>
            /\ devices[id].uploadCount = 0
            /\ ~InFlight("AddUpload", id)) =>
            resp.avg_upload_time = "0s"

\* C28: under fair scheduling every call that has started returns, on known
\* and unknown identifiers, however many GetStats calls keep coming; and a
\* call that cannot take its next step is waiting for its device's lock,
\* nothing else.
C28_EveryCallReturns ==
    /\ \A p \in Procs : [](pc[p] # "idle" => <>(pc[p] = "idle"))
    /\ [](\A p \in Procs :
            (pc[p] # "idle" /\ ~ENABLED Step(p)) =>
                /\ pc[p] \in {"dev_lock", "dev_lock_wait", "dev_rlock_wait"}
                /\ call[p].device \in Known)

\* A writer has announced Lock on a device and waits for a GetStats to
\* leave, after an earlier GetStats on the device, then with two minutes,
\* has returned.
C28_Witness ==
    \E p, q \in Procs :
        /\ pc[p] = "dev_lock_wait"
        /\ pc[q] \in ReadSection
        /\ call[p].device = call[q].device
        /\ ret.err = Nil
        /\ ret.uptime = <<100, 1>>
        /\ Cardinality(devices[call[p].device].minutes) = 2

\* C29: the registry lock is never held or requested exclusively and no
\* caller is blocked on it: a caller about to look up can always do so.
C29_RegistrySharedOnly ==
    /\ regMu.w = None
    /\ regMu.rwait = {}
    /\ \A p \in Procs : pc[p] = "reg_rlock" => ENABLED RegRLock(p)

\* Both callers hold the registry lock at once, after a call has returned.
C29_Witness ==
    /\ regMu.readers = Procs
    /\ calls = 3
    /\ ret.err # None

\* C30: when an AddHeartbeat has the device's lock, minutes is empty exactly
\* if no AddHeartbeat on the device has returned before; its window step
\* then sets firstMinute and lastMinute to its minute, and otherwise
\* firstMinute to the smaller of firstMinute and its minute and lastMinute
\* to the larger of lastMinute and its minute, also for minutes 0 and -1.
C30_FirstHeartbeat ==
    /\ [](\A p \in Procs :
            pc[p] = "hb_window" =>
                (devices[call[p].device].minutes = {} <=> hbDone[call[p].device] = {}))
    /\ [][\A p \in Procs :
            (pc[p] = "hb_window" /\ pc'[p] = "hb_insert") =>
                LET d == call[p].device
                    m == call[p].minute
                IN  IF hbDone[d] = {}
                    THEN /\ devices'[d].firstMinute = m
                         /\ devices'[d].lastMinute = m
                    ELSE /\ devices'[d].firstMinute = Min({devices[d].firstMinute, m})
                         /\ devices'[d].lastMinute = Max({devices[d].lastMinute, m})]_vars

\* A heartbeat of minute 1 has extended the window of a device whose only
\* heartbeat before was of minute 0, after a first heartbeat of minute -1
\* on the other device.
C30_Witness ==
    \E p \in Procs :
        /\ pc[p] = "hb_insert"
        /\ call[p].minute = 1
        /\ hbDone[call[p].device] = {0}
        /\ devices[call[p].device].firstMinute = 0
        /\ devices[call[p].device].lastMinute = 1
        /\ \E e \in Known : devices[e].minutes = {-1} /\ devices[e].firstMinute = -1

\* C31: a GetStats that has computed the uptime of a device computed a value
\* above 0 if an AddHeartbeat on the device has returned nil before, and
\* exactly 0 if none has: uptime 0 means no heartbeat recorded.
C31_UptimePositive ==
    \A p \in Procs :
        pc[p] \in {"gs_avg", "dev_runlock"} =>
            LET done == hbDone[call[p].deviceID] IN
                /\ done # {} => call[p].uptime[1] > 0 /\ call[p].uptime[2] > 0
                /\ done = {} => call[p].uptime = <<0, 1>>
                /\ call[p].uptime = <<0, 1>> <=> devices[call[p].device].minutes = {}

\* A GetStats has computed 50 percent for a device with heartbeats in
\* minutes -1 and 3.
C31_Witness ==
    \E p \in Procs :
        /\ pc[p] = "dev_runlock"
        /\ hbDone[call[p].deviceID] = {-1, 3}
        /\ call[p].uptime = <<50, 1>>

\* The store returns to the GET handler, which answers for caller p.
StatsGetAnswered(p) ==
    pc[p] = "dev_runlock" /\ pc'[p] = "idle" /\ call[p].handler = "HandleStatsGet"

InvalidSentAt(v) ==
    \/ v.type = "absent"
    \/ v.type = "string" /\ (~ParseRFC3339(v.str).ok \/ ParseRFC3339(v.str).time.isZero)

\* A body that is not JSON, or whose sent_at is missing or invalid.
InvalidBody(body) == ~body.json \/ InvalidSentAt(body.sent_at)

PostHandlers == {"HandleHeartbeat", "HandleStatsPost"}

RouteOf(req) ==
    LET last == req.path[Len(req.path)] IN
        IF last = "heartbeat"
        THEN (IF req.method = "POST" THEN "HandleHeartbeat" ELSE "405")
        ELSE IF last = "stats"
        THEN (IF req.method = "POST" THEN "HandleStatsPost"
              ELSE IF req.method = "GET" THEN "HandleStatsGet" ELSE "405")
        ELSE "404"

UnderDevices(path) ==
    Len(path) >= 4 /\ SubSeq(path, 1, 3) = <<"api", "v1", "devices">>

\* C34: a request under /api/v1/devices/ is answered by the handler its
\* suffix and method select, and by the router itself with 405 for another
\* method on .../heartbeat or .../stats and with 404 for any other path,
\* /api/v1/devices/ among them; a store call made for such a request is made
\* by the handler selected.
C34_Dispatch ==
    /\ UnderDevices(resp.req.path) =>
            IF RouteOf(resp.req) = "405" THEN resp.by = "NewRouter" /\ resp.status = 405
            ELSE IF RouteOf(resp.req) = "404" THEN resp.by = "NewRouter" /\ resp.status = 404
            ELSE resp.by = RouteOf(resp.req)
    /\ \A p \in Procs :
            UnderDevices(call[p].req.path) => call[p].handler = RouteOf(call[p].req)

\* The router has answered DELETE /api/v1/devices/d1/stats with 405, as the
\* second request it was given.
C34_Witness ==
    /\ resp.req.path = <<"api", "v1", "devices", "d1", "stats">>
    /\ resp.req.method = "DELETE"
    /\ resp.by = "NewRouter"
    /\ resp.status = 405
    /\ calls = 2

\* C35: the store starts with every device empty, and a GetStats on a known
\* device finds the device; until an AddHeartbeat or AddUpload on the device
\* has returned, the GetStats that holds its read lock has computed uptime 0
\* and average 0 from an aggregate still as NewMemoryStore made it, whatever
\* was written to the other device.
C35_FreshDeviceZero ==
    \A p \in Procs :
        call[p].op = "GetStats" =>
            LET id == call[p].deviceID IN
                /\ (pc[p] = "reg_runlock" /\ id \in Range(DeviceIDs)) => call[p].device = id
                /\ (pc[p] = "dev_runlock" /\ hbDone[id] = {} /\ upDone[id].count = 0) =>
                        /\ devices[id] = EmptyAgg
                        /\ call[p].uptime = <<0, 1>>
                        /\ call[p].avgUpload = <<0, 1>>

\* A GetStats has computed the statistics of a device nothing was written
\* to, after a heartbeat and an upload of the other device have returned.
C35_Witness ==
    \E p \in Procs, e \in Known :
        /\ pc[p] = "dev_runlock"
        /\ call[p].device # e
        /\ hbDone[call[p].deviceID] = {} /\ upDone[call[p].deviceID].count = 0
        /\ hbDone[e] # {} /\ upDone[e].count = 1

C37_OnlyGrows ==
    [][\A d \in Known :
        /\ d \in DOMAIN devices'
        /\ devices[d].minutes \subseteq devices'[d].minutes
        /\ devices'[d].uploadCount >= devices[d].uploadCount
        /\ devices[d].minutes # {} =>
                /\ devices'[d].firstMinute <= devices[d].firstMinute
                /\ devices'[d].lastMinute >= devices[d].lastMinute]_vars

\* A heartbeat of minute -1 has lowered the firstMinute of a device that
\* had minute 1 and one upload, and is about to add its minute.
C37_Witness ==
    \E p \in Procs :
        /\ pc[p] = "hb_insert"
        /\ call[p].minute = -1
        /\ devices[call[p].device] =
                [minutes |-> {1}, firstMinute |-> -1, lastMinute |-> 1,
                 uploadCount |-> 1, uploadSum |-> 2]

\* C38: every step of an AddHeartbeat leaves uploadSum and uploadCount of
\* every device as they were, the two fields the average is computed from;
\* every step of an AddUpload, whatever minute its sentAt lies in, leaves
\* minutes, firstMinute and lastMinute of every device as they were, the
\* three fields the uptime is computed from.
C38_DisjointFields ==
    [][\A p \in Procs : \A d \in Known :
        pc'[p] # pc[p] =>
            /\ call[p].op = "AddHeartbeat" =>
                    /\ devices'[d].uploadSum = devices[d].uploadSum
                    /\ devices'[d].uploadCount = devices[d].uploadCount
            /\ call[p].op = "AddUpload" =>
                    /\ devices'[d].minutes = devices[d].minutes
                    /\ devices'[d].firstMinute = devices[d].firstMinute
                    /\ devices'[d].lastMinute = devices[d].lastMinute]_vars

\* An upload sent in minute 3 has changed uploadCount and uploadSum of a
\* device whose only minute is 1 and is about to return, after an upload
\* and a heartbeat of that device.
C38_Witness ==
    \E p \in Procs :
        /\ pc[p] = "dev_unlock"
        /\ call[p].op = "AddUpload"
        /\ call[p].sentAt = 180
        /\ devices[call[p].device] =
                [minutes |-> {1}, firstMinute |-> 1, lastMinute |-> 1,
                 uploadCount |-> 2, uploadSum |-> 4]

\* C39: no step of a GetStats changes a device or the set of registered
\* identifiers; what a GetStats returns for a device is fixed by the writes
\* to the device that have returned (their minutes, their count and their
\* sum), so two calls with no write returning between them return the same;
\* and two GetStats that hold the read lock of one device together have
\* computed the same.
C39_ReadOnly ==
    /\ [][\A p \in Procs :
            (pc'[p] # pc[p] /\ "GetStats" \in {call[p].op, call'[p].op}) =>
                devices' = devices]_vars
    /\ [][\A p \in Procs :
            (pc[p] = "dev_runlock" /\ pc'[p] = "idle") =>
                LET id == call[p].deviceID IN
                    ret' = [err |-> Nil,
                            uptime |-> UptimeOf(hbDone[id]),
                            avgUpload |-> CalculateAverageUpload(upDone[id].sum,
                                                                 upDone[id].count)]]_vars
    /\ [](\A p, q \in Procs :
            (pc[p] = "dev_runlock" /\ pc[q] = "dev_runlock"
                /\ call[p].device = call[q].device) =>
                /\ call[p].uptime = call[q].uptime
                /\ call[p].avgUpload = call[q].avgUpload)

\* Two GetStats hold the read lock of a device with one upload together,
\* both about to return.
C39_Witness ==
    /\ \A p \in Procs : pc[p] = "dev_runlock" /\ call[p].avgUpload = <<2, 1>>
    /\ \E d \in Known : devMu[d].readers = Procs /\ devices[d].uploadCount = 1

\* C40: whenever no store call is in progress the registry lock and every
\* device lock are free: no writer, no reader, nobody waiting; and a call
\* that returns, with nil or with ErrDeviceNotFound, holds no lock after
\* its return.
C40_LocksReleased ==
    /\ (\A p \in Procs : pc[p] = "idle") =>
            /\ regMu = FreeMu
            /\ \A d \in Known : devMu[d] = FreeMu
    /\ \A p \in Procs :
            pc[p] = "idle" =>
                /\ p \notin regMu.readers /\ regMu.w # p
                /\ \A d \in Known : p \notin devMu[d].readers /\ devMu[d].w # p

\* A call for an unknown identifier has returned ErrDeviceNotFound after
\* two calls that took and released a device lock, and no call is in
\* progress.
C40_Witness ==
    /\ \A p \in Procs : pc[p] = "idle"
    /\ ret.err = ErrDeviceNotFound
    /\ calls = 3
    /\ \E d \in Known : devices[d].uploadCount = 1 /\ devices[d].minutes # {}

====
